---- MODULE Spec2Model ----
(***************************************************************************)
(* The Bus Ingestion & Fan-out Manager of flodgatt                         *)
(* (src/src/response/redis/manager.rs): the subscription table, the input  *)
(* buffer with its two indices, the parse loop, fan-out with backpressure  *)
(* rewind, and the ping sweep.  The wire parser, the event decoder and the *)
(* bus connection are not part of the sources at hand; they are modelled   *)
(* from sections 4.1-4.3 and 6 of the specification.                       *)
(*                                                                         *)
(* A byte is a one-character string; CR and LF are "\r" and "\n"; "C3" and *)
(* "A9" are the two bytes of one two-byte UTF-8 code point.                *)
(***************************************************************************)
EXTENDS Integers, Sequences, FiniteSets, TLC

\* ------------------------------------------------------------------ bounds
\* Channels a run may subscribe (channel_id stays below this).
MaxChannels == 2
\* Frames the bus may emit in a run.
MaxEmit == 2
\* Events the bus may deliver in a run of SpecFanOut.
MaxEmitFanOut == 3
\* Depth of every client's bounded queue (set by the caller of subscribe).
QueueCap == 1
\* Iterations of the loop of rewind_to_prev_msg the model follows.
MaxRewind == 4
\* Frames the bus may emit in a run of SpecLive.
MaxEmitLive == 1
\* Client managers a Receiver may serve at a time.
MaxManagers == 3
\* Commands a Receiver may have sent when it takes a new client manager.
MaxCmds == 3
\* Bytes of the buffers of SpecCompact.
MaxBuf == 4
\* Events the bus may deliver in a run of SpecChunk.
MaxEmitChunk == 1
\* Frames the bus may emit in a run of SpecTail.
MaxEmitTail == 2
\* Frames the bus may emit in a run of SpecDecode.
MaxEmitDecode == 2
\* Events the bus may deliver in a run of SpecWs.
MaxEmitWs == 1
\* Messages the pipe of an adapter holds before the adapter waits.
MaxPiped == 1

\* ------------------------------------------------------------------- bytes
CR == "\r"
LF == "\n"
CRLF == <<CR, LF>>
Digit == {"0", "1", "2", "3", "4", "5", "6", "7", "8", "9"}

DigitVal(d) ==
    CASE d = "0" -> 0 [] d = "1" -> 1 [] d = "2" -> 2 [] d = "3" -> 3
      [] d = "4" -> 4 [] d = "5" -> 5 [] d = "6" -> 6 [] d = "7" -> 7
      [] d = "8" -> 8 [] d = "9" -> 9

DigitOf(n) ==
    CASE n = 0 -> "0" [] n = 1 -> "1" [] n = 2 -> "2" [] n = 3 -> "3"
      [] n = 4 -> "4" [] n = 5 -> "5" [] n = 6 -> "6" [] n = 7 -> "7"
      [] n = 8 -> "8" [] n = 9 -> "9"

\* s[from..], 1-based, empty when from is past the end.
Drop(s, n) == SubSeq(s, n + 1, Len(s))
Take(s, n) == SubSeq(s, 1, n)

IsPrefix(p, s) == Len(p) <= Len(s) /\ Take(s, Len(p)) = p

\* ------------------------------------------------------------------- UTF-8
\* str::from_utf8 / Utf8Error::valid_up_to: the length of the longest prefix
\* of b that is valid UTF-8.  "C3" leads a two-byte code point, "A9" is a
\* continuation byte, every other byte is ASCII.
ValidUpTo(b) ==
    LET bad == {i \in 1..Len(b) :
                   \/ b[i] = "A9" /\ (i = 1 \/ b[i - 1] # "C3")
                   \/ b[i] = "C3" /\ (i = Len(b) \/ b[i + 1] # "A9")}
    IN IF bad = {} THEN Len(b)
       ELSE (CHOOSE i \in bad : \A j \in bad : i <= j) - 1

\* ------------------------------------------------------------- wire parser
\* The bus reply grammar (arrays, bulk strings, simple strings, integers,
\* each line ended by CR LF).  Every parse result is a record
\* [st, val, rest]: st is "Ok", "Incomplete" or "Error", val the value read
\* ([t, s]: its type and, for a bulk string, its bytes), rest the bytes
\* left after it.
NoVal == [t |-> "none", s |-> <<>>]
Failed(st) == [st |-> st, val |-> NoVal, rest |-> <<>>]

RECURSIVE CountDigits(_)
CountDigits(s) ==
    IF s # <<>> /\ s[1] \in Digit THEN 1 + CountDigits(Drop(s, 1)) ELSE 0

RECURSIVE DecimalValue(_)
DecimalValue(ds) ==
    IF ds = <<>> THEN 0
    ELSE 10 * DecimalValue(Take(ds, Len(ds) - 1)) + DigitVal(ds[Len(ds)])

\* The bytes after position n of s must be CR LF: "Ok" with what follows,
\* "Incomplete" when s ends inside CR LF, "Error" otherwise.
AfterNewlineAt(s, n) ==
    LET t == Drop(s, n) IN
    IF Len(t) >= 2
    THEN IF Take(t, 2) = CRLF
         THEN [st |-> "Ok", val |-> NoVal, rest |-> Drop(t, 2)]
         ELSE Failed("Error")
    ELSE IF IsPrefix(t, CRLF) THEN Failed("Incomplete") ELSE Failed("Error")

\* A decimal number and the CR LF ending its line.
NumberOfDigits(s, k, a) ==
    IF k = Len(s) THEN Failed("Incomplete")
    ELSE IF k = 0 THEN Failed("Error")
    ELSE IF a.st # "Ok" THEN a
    ELSE [st |-> "Ok", val |-> [t |-> "int", s |-> Take(s, k)], rest |-> a.rest]

ParseNumberAt(s) == NumberOfDigits(s, CountDigits(s), AfterNewlineAt(s, CountDigits(s)))

\* "$<n>\r\n<n bytes>\r\n": the payload is bounded by the length prefix.
BulkOfLength(h, n, a) ==
    IF Len(h.rest) < n THEN Failed("Incomplete")
    ELSE IF a.st # "Ok" THEN a
    ELSE [st |-> "Ok", val |-> [t |-> "bulk", s |-> Take(h.rest, n)], rest |-> a.rest]

BulkAfter(h) ==
    IF h.st # "Ok" THEN h
    ELSE BulkOfLength(h, DecimalValue(h.val.s),
                      AfterNewlineAt(h.rest, DecimalValue(h.val.s)))

ParseBulkString(s) == BulkAfter(ParseNumberAt(s))

\* "+<line>\r\n": the position of the first CR LF of s, 0 when there is none.
RECURSIVE FindCRLF(_, _)
FindCRLF(s, i) ==
    IF i + 1 > Len(s) THEN 0
    ELSE IF s[i] = CR /\ s[i + 1] = LF THEN i
    ELSE FindCRLF(s, i + 1)

ParseSimpleString(s) ==
    LET i == FindCRLF(s, 1) IN
    IF i = 0 THEN Failed("Incomplete")
    ELSE [st |-> "Ok", val |-> [t |-> "simple", s |-> <<>>], rest |-> Drop(s, i + 1)]

RECURSIVE ParseData(_), ParseElems(_, _, _), ElemsAfter(_, _, _), ArrayAfter(_)
\* One frame at the start of s.
ParseData(s) ==
    IF s = <<>> THEN Failed("Incomplete")
    ELSE CASE s[1] = ":" -> ParseNumberAt(Drop(s, 1))
           [] s[1] = "$" -> ParseBulkString(Drop(s, 1))
           [] s[1] = "+" -> ParseSimpleString(Drop(s, 1))
           [] s[1] = "*" -> ArrayAfter(ParseNumberAt(Drop(s, 1)))
           [] OTHER -> Failed("Error")

\* An array after its header h: as many elements as the header says.
ArrayAfter(h) ==
    IF h.st # "Ok" THEN h ELSE ParseElems(DecimalValue(h.val.s), h.rest, <<>>)

\* The n elements of an array; the value of an array is kept as the
\* sequence of its elements' values in val.s.
ParseElems(n, s, acc) ==
    IF n = 0 THEN [st |-> "Ok", val |-> [t |-> "array", s |-> acc], rest |-> s]
    ELSE ElemsAfter(n, ParseData(s), acc)

\* The elements of an array that follow the element e just read.
ElemsAfter(n, e, acc) ==
    IF e.st # "Ok" THEN e
    ELSE ParseElems(n - 1, e.rest,
                    Append(acc, IF e.val.t = "array"
                                THEN [t |-> "array", s |-> <<>>]
                                ELSE e.val))

MessageWord == <<"m", "e", "s", "s", "a", "g", "e">>

\* RedisParseOutput::try_from(valid): Msg {channel, payload, leftover},
\* NonMsg {leftover}, Incomplete or Error; OutputOf classifies the frame d.
OutputOf(d) ==
    LET none == [kind |-> "Error", channel |-> <<>>, payload |-> <<>>, leftover |-> <<>>]
    IN
    IF d.st = "Incomplete" THEN [none EXCEPT !.kind = "Incomplete"]
    ELSE IF d.st = "Error" THEN none
    ELSE IF /\ d.val.t = "array"
            /\ Len(d.val.s) = 3
            /\ \A i \in 1..3 : d.val.s[i].t = "bulk"
            /\ d.val.s[1].s = MessageWord
         THEN [kind |-> "Msg", channel |-> d.val.s[2].s, payload |-> d.val.s[3].s,
               leftover |-> d.rest]
         ELSE [none EXCEPT !.kind = "NonMsg", !.leftover = d.rest]

TryFrom(valid) == OutputOf(ParseData(valid))

\* ----------------------------------------------------------- event decoder
\* The configured namespace of the bus connection.
namespace == <<"n", "s">>
TimelineWord == <<"t", "i", "m", "e", "l", "i", "n", "e", ":">>

\* RedisMsg::timeline_matching_ns: the part of the channel after "<ns>:",
\* or none when the channel does not carry the namespace.
timeline_matching_ns(channel, ns) ==
    IF ns = <<>> THEN [some |-> TRUE, txt |-> channel]
    ELSE IF IsPrefix(ns \o <<":">>, channel)
         THEN [some |-> TRUE, txt |-> Drop(channel, Len(ns) + 1)]
         ELSE [some |-> FALSE, txt |-> <<>>]

\* The timelines of the model: User(1) and User(2), written 1 and 2.
Timelines == {1, 2}

\* Timeline::from_redis_text: "timeline:<user id>" is the timeline User(id);
\* anything else is a decode error.
from_redis_text(txt) ==
    IF /\ IsPrefix(TimelineWord, txt)
       /\ Len(txt) = Len(TimelineWord) + 1
       /\ txt[Len(txt)] \in Digit
       /\ DigitVal(txt[Len(txt)]) \in Timelines
    THEN [ok |-> TRUE, tl |-> DigitVal(txt[Len(txt)])]
    ELSE [ok |-> FALSE, tl |-> 0]

\* The text an event may carry after its id: none, or one two-byte code
\* point.
EventTexts == {<<>>, <<"C3", "A9">>}

\* Event::try_from(event_txt): the payload text of an event is its id, a
\* decimal number of one digit, and its text; any other payload is an
\* unknown event.
event_from_json(payload) ==
    IF Len(payload) >= 1 /\ payload[1] \in Digit /\ Drop(payload, 1) \in EventTexts
    THEN [ok |-> TRUE, event |-> DigitVal(payload[1])]
    ELSE [ok |-> FALSE, event |-> 0]

\* --------------------------------------------------------------- the bus
\* Decimal text of n < 100.
DecimalText(n) == IF n < 10 THEN <<DigitOf(n)>> ELSE <<DigitOf(n \div 10), DigitOf(n % 10)>>

BulkString(b) == <<"$">> \o DecimalText(Len(b)) \o CRLF \o b \o CRLF
ArrayOf3(a, b, c) == <<"*", "3">> \o CRLF \o a \o b \o c

\* Timeline::to_redis_raw with the namespace: "<ns>:timeline:<user id>".
ChannelOf(ns, tl) == ns \o <<":">> \o TimelineWord \o <<DigitOf(tl)>>

\* "*3\r\n$7\r\nmessage\r\n$<n>\r\n<channel>\r\n$<m>\r\n<payload>\r\n"
MsgFrame(channel, payload) ==
    ArrayOf3(BulkString(MessageWord), BulkString(channel), BulkString(payload))

\* The acknowledgment of SUBSCRIBE: an array that is no pub/sub delivery.
SubscribeWord == <<"s", "u", "b", "s", "c", "r", "i", "b", "e">>
AckFrame(channel) ==
    ArrayOf3(BulkString(SubscribeWord), BulkString(channel), <<":", "1">> \o CRLF)

\* A namespace of another tenant of the bus.
OtherNamespace == <<"x", "x">>

\* A payload of an event type the decoder does not know.
UnknownEvent == <<"x">>

\* Bytes that cannot start a frame (the malformed-frame scenario).
Garbage == <<"g", "a", "r", "b", "a", "g", "e">> \o CRLF

\* -------------------------------------------------------- client channels
\* A channel is [q, open]: the events queued and whether the receiving end
\* is still held by the client adapter.
\* Event::Ping, written 0: the events of the bus carry the ids 1, 2, ...
Ping == 0

\* Sender::poll_ready
poll_ready(c) ==
    IF ~c.open THEN "Err"
    ELSE IF Len(c.q) < QueueCap THEN "Ready" ELSE "NotReady"

\* Sender::try_send succeeds iff the receiver is alive and the queue has room.
try_send_ok(c) == c.open /\ Len(c.q) < QueueCap
try_send(c, ev) == IF try_send_ok(c) THEN [c EXCEPT !.q = Append(@, ev)] ELSE c

\* ------------------------------------------------------------ the Manager
VARIABLES
    input,          \* redis_conn.input: the bytes of the input buffer
    unread_idx,     \* <<read_start, write_end>>, offsets into input from 0
    timelines,      \* Timeline -> set of channel ids (the keys vary)
    channel_id,     \* the next channel id
    ping_due,       \* ping_time.elapsed() > 30 s
    chan,           \* channel id -> [q, open]
    wire,           \* bytes the bus has written and the Manager has not read
    bus_subscribed, \* the timelines the bus routes to this connection
    cmds,           \* the commands handed to send_cmd, in order
    emitted,        \* the number of frames the bus has emitted
    pc,             \* where send_msgs stands: "idle" between calls
    ret,            \* what the last call of send_msgs returned
    last_poll,      \* the last poll() of the parse loop: its cursor and result
    abort,          \* the last fan-out aborted by backpressure
    delivered,      \* channel id -> [last, times, seen]: the last event
                    \* try_send put into it, how many times in a row, and
                    \* how many times the event put into it changed
    ws,             \* channel id -> the WebSocket adapter (Ws) of the client
    receiver        \* the Receiver of receiver/mod.rs

vars == <<input, unread_idx, timelines, channel_id, ping_due, chan, wire,
          bus_subscribed, cmds, emitted, pc, ret, last_poll, abort, delivered,
          ws, receiver>>

ZeroByte == "00"
\* The length of the input buffer of a new connection.
InitialLen == 64
\* The size of a short read of the socket.
ShortRead == 30

Channels(tl) == IF tl \in DOMAIN timelines THEN timelines[tl] ELSE {}

\* The channel ids a run may allocate.
ChannelIds == 0..(MaxChannels - 1)

\* The channel ids the subscription table holds.
InTable == UNION {timelines[tl] : tl \in DOMAIN timelines}

\* The adapter Ws of one client (response/stream/ws.rs) is
\* [remote, pipe, piped, swept]: whether the WebSocket peer still takes
\* what is written to it; whether the task spawned by send_to, which
\* forwards the pipe (ws_tx, ws_rx) to the WebSocket, is alive and holds
\* ws_rx; the messages in the pipe; and, for the claims, the ping sweeps
\* that found the channel in the table after its peer had failed.
NewWs == [remote |-> TRUE, pipe |-> TRUE, piped |-> 0, swept |-> 0]

\* The peer of channel c has failed and c is in the subscription table.
Failing(c) == c \in InTable /\ ~ws[c].remote

Swept(w) == [w EXCEPT !.swept = @ + 1]

\* Receiver::new: no timeline configured, no queue, no client counted.
NewReceiver ==
    [timeline |-> 0, manager_id |-> 0, msg_queues |-> <<>>,
     clients_per_timeline |-> <<>>, dropped |-> FALSE]

copy_partial_msg_offbyone(inp, idx) ==
    LET n == idx[2] - idx[1] IN
    [input |->
        IF idx[1] = 0 THEN inp
        ELSE IF idx[1] >= n
             THEN [i \in 1..Len(inp) |-> IF i <= n THEN inp[idx[1] + i - 1] ELSE inp[i]]
             ELSE Drop(inp, idx[1]),
     unread_idx |-> <<0, n>>]

copy_partial_msg_halfreset(inp, idx) ==
    LET n == idx[2] - idx[1] IN
    [input |->
        IF idx[1] = 0 THEN inp
        ELSE IF idx[1] >= n
             THEN [i \in 1..Len(inp) |-> IF i <= n THEN inp[idx[1] + i] ELSE inp[i]]
             ELSE Drop(inp, idx[1]),
     unread_idx |-> <<idx[1], n>>]

\* copy_partial_msg: the unread bytes move to the front of the buffer.
copy_partial_msg(inp, idx) ==
    LET n == idx[2] - idx[1] IN
    [input |->
        IF idx[1] = 0 THEN inp
        ELSE IF idx[1] >= n
             THEN [i \in 1..Len(inp) |-> IF i <= n THEN inp[idx[1] + i] ELSE inp[i]]
             ELSE Drop(inp, idx[1]),
     unread_idx |-> <<0, n>>]

\* Stream::poll: one step of the parser over input[read_start..write_end].
\* The result is [input, unread_idx, out, why, tl, event, consumed]: the buffer
\* and indices afterwards, the Poll value returned (out), the branch taken
\* (why), the decoded item, and for a complete frame its length in bytes.
NotReadyYet(inp, idx) ==
    [input |-> inp, unread_idx |-> idx, out |-> "NotReady", why |-> "Empty",
     tl |-> 0, event |-> 0, consumed |-> 0]

\* The arm Ok(Msg(msg)) of poll whose channel carries the namespace: the
\* cursor moves past the frame, then the timeline and the event are decoded.
PollMsg(res, idx, used, leftover, invalid, tl, ev) ==
    LET idx1 == <<idx[2] - Len(leftover) - Len(invalid), idx[2]>> IN
    IF ~tl.ok \/ ~ev.ok
    THEN [res EXCEPT !.unread_idx = idx1, !.out = "Err", !.why = "DecodeErr",
                     !.consumed = used]
    ELSE [res EXCEPT !.unread_idx = idx1, !.out = "ReadySome", !.why = "Msg",
                     !.tl = tl.tl, !.event = ev.event, !.consumed = used]

\* The arm Ok(NonMsg(leftover_input)) of poll.
PollNonMsg(res, idx, used, leftover) ==
    [res EXCEPT !.unread_idx = <<idx[2] - Len(leftover), idx[2]>>,
                !.out = "ReadyNone", !.why = "NonMsg", !.consumed = used]

PollIncomplete_drop(res, c) ==
    [res EXCEPT !.unread_idx = <<0, 0>>, !.why = "Incomplete"]

\* The arm Err(Incomplete) of poll.
PollIncomplete(res, c) ==
    [res EXCEPT !.input = c.input, !.unread_idx = c.unread_idx, !.why = "Incomplete"]

\* The match of poll on the parser's output p.
PollParsed(inp, idx, valid, invalid, p, m) ==
    CASE p.kind = "Msg" ->
            IF m.some
            THEN PollMsg(NotReadyYet(inp, idx), idx, Len(valid) - Len(p.leftover),
                         p.leftover, invalid, from_redis_text(m.txt),
                         event_from_json(p.payload))
            ELSE [NotReadyYet(inp, idx) EXCEPT
                     !.out = "ReadyNone", !.why = "NsMismatch",
                     !.consumed = Len(valid) - Len(p.leftover)]
      [] p.kind = "NonMsg" ->
            PollNonMsg(NotReadyYet(inp, idx), idx, Len(valid) - Len(p.leftover),
                       p.leftover)
      [] p.kind = "Incomplete" ->
            PollIncomplete(NotReadyYet(inp, idx), copy_partial_msg(inp, idx))
      [] OTHER ->
            [NotReadyYet(inp, idx) EXCEPT !.out = "Err", !.why = "ParseErr"]

PollMatch(inp, idx, valid, invalid, p) ==
    PollParsed(inp, idx, valid, invalid, p, timeline_matching_ns(p.channel, namespace))

\* poll on the valid text of the window and its invalid tail.
PollSplit(inp, idx, valid, invalid) ==
    IF valid # <<>>
    THEN PollMatch(inp, idx, valid, invalid, TryFrom(valid))
    ELSE [NotReadyYet(inp, idx) EXCEPT !.unread_idx = <<0, 0>>]

PollWindow(inp, idx, window, v) == PollSplit(inp, idx, Take(window, v), Drop(window, v))

PollOver(inp, idx, window) == PollWindow(inp, idx, window, ValidUpTo(window))

Poll(inp, idx) == PollOver(inp, idx, SubSeq(inp, idx[1] + 1, idx[2]))

\* str::rfind("\r\n*"): the greatest offset (from 0) at which s holds
\* CR LF "*", or -1.
RFind(s) ==
    LET at == {i \in 0..(Len(s) - 3) : s[i + 1] = CR /\ s[i + 2] = LF /\ s[i + 3] = "*"}
    IN IF at = {} THEN -1 ELSE CHOOSE i \in at : \A j \in at : j <= i

RewindIndex_noskip(inp, rs) ==
    LET before == Take(inp, rs)
        text == Take(before, ValidUpTo(before))
        i == RFind(text)
    IN IF i >= 0 THEN i ELSE 0

RewindIndex_zero(inp, rs) == 0

\* The candidate offset of rewind_to_prev_msg: just after the last CR LF
\* that precedes a "*" in the valid text before read_start, else 0.
RewindIndex(inp, rs) ==
    LET before == Take(inp, rs)
        text == Take(before, ValidUpTo(before))
        i == RFind(text)
    IN IF i >= 0 THEN i + 2 ELSE 0

rewind_to_prev_msg_stay(inp, idx, fuel) ==
    [input |-> inp, unread_idx |-> idx, diverged |-> FALSE]

\* rewind_to_prev_msg: set read_start to the candidate and poll; stop when
\* the poll yields an item, else search again from where the poll left the
\* cursor.  diverged: the loop did not stop within fuel iterations.
RECURSIVE rewind_to_prev_msg(_, _, _), RewindPolled(_, _, _), RewindFrom(_, _, _, _)
rewind_to_prev_msg(inp, idx, fuel) == RewindFrom(inp, idx, RewindIndex(inp, idx[1]), fuel)

RewindFrom(inp, idx, index, fuel) == RewindPolled(index, Poll(inp, <<index, idx[2]>>), fuel)

RewindPolled(index, p, fuel) ==
    IF p.out = "ReadySome"
    THEN [input |-> p.input, unread_idx |-> <<index, p.unread_idx[2]>>,
          diverged |-> FALSE]
    ELSE IF fuel = 0
         THEN [input |-> p.input, unread_idx |-> p.unread_idx, diverged |-> TRUE]
         ELSE rewind_to_prev_msg(p.input, p.unread_idx, fuel - 1)

\* All orders in which a HashMap may yield the members of S.
Orders(S) ==
    {f \in [1..Cardinality(S) -> S] : \A i, j \in 1..Cardinality(S) : f[i] = f[j] => i = j}

\* The for loop of send_msgs over the channels of a timeline, in the order
\* given: the first channel that is not ready stops it (full); every other
\* channel is sent the event, a failed send being ignored.  sent: the
\* channels whose try_send succeeded.
RECURSIVE FanOut(_, _, _, _)
FanOut(order, ch, ev, sent) ==
    IF order = <<>> THEN [chan |-> ch, full |-> FALSE, sent |-> sent]
    ELSE LET c == Head(order) IN
         IF poll_ready(ch[c]) = "NotReady"
         THEN [chan |-> ch, full |-> TRUE, sent |-> sent]
         ELSE FanOut(Tail(order), [ch EXCEPT ![c] = try_send(ch[c], ev)], ev,
                     IF try_send_ok(ch[c]) THEN sent \cup {c} ELSE sent)

IsFirstChannel_any(channels) == channels # {}

\* channels.len() == 1 after the insert of subscribe.
IsFirstChannel(channels) == Cardinality(channels) = 1

Retained_all(channels) == channels

\* The channels of a timeline that send_pings retains: those whose
\* try_send(Ping) succeeds.
Retained(channels) == {c \in channels : try_send_ok(chan[c])}

\* The timelines send_pings keeps as keys.
KeptTimeline(tl) == Retained(timelines[tl]) # {}

\* RedisConn::send_cmd(kind, timelines): the command goes to the bus, which
\* routes accordingly from then on.
send_cmd(kind, tls) ==
    /\ cmds' = Append(cmds, [kind |-> kind, tls |-> tls])
    /\ bus_subscribed' = IF kind = "Subscribe" THEN bus_subscribed \cup tls
                         ELSE bus_subscribed \ tls

NoPoll == [rs |-> 0, out |-> "None", why |-> "None", consumed |-> 0, sent |-> {}]
NoAbort == [some |-> FALSE, start |-> 0, we |-> 0, tl |-> 0, event |-> 0]

Init ==
    /\ input = [i \in 1..InitialLen |-> ZeroByte]
    /\ unread_idx = <<0, 0>>
    /\ timelines = <<>>
    /\ channel_id = 0
    /\ ping_due = FALSE
    /\ chan = <<>>
    /\ wire = <<>>
    /\ bus_subscribed = {}
    /\ cmds = <<>>
    /\ emitted = 0
    /\ pc = "idle"
    /\ ret = "None"
    /\ last_poll = NoPoll
    /\ abort = NoAbort
    /\ delivered = <<>>
    /\ ws = [c \in ChannelIds |-> NewWs]
    /\ receiver = NewReceiver

\* Manager::subscribe(subscription, channel) for a timeline without a tag.
Subscribe(tl) ==
    /\ pc = "idle"
    /\ channel_id < MaxChannels
    /\ LET channels == Channels(tl) \cup {channel_id} IN
       /\ timelines' = [t \in DOMAIN timelines \cup {tl} |->
                           IF t = tl THEN channels ELSE timelines[t]]
       /\ IF IsFirstChannel(channels)
          THEN send_cmd("Subscribe", {tl})
          ELSE UNCHANGED <<cmds, bus_subscribed>>
    /\ chan' = [c \in DOMAIN chan \cup {channel_id} |->
                   IF c = channel_id THEN [q |-> <<>>, open |-> TRUE] ELSE chan[c]]
    /\ delivered' = [c \in DOMAIN delivered \cup {channel_id} |->
                        IF c = channel_id THEN [last |-> 0, times |-> 0, seen |-> 0]
                        ELSE delivered[c]]
    /\ channel_id' = channel_id + 1
    /\ UNCHANGED <<input, unread_idx, ping_due, wire, emitted, pc, ret,
                   last_poll, abort, ws, receiver>>

\* A client adapter takes the oldest event of its queue.
ClientTakes(c) ==
    /\ c \in InTable
    /\ chan[c].open
    /\ chan[c].q # <<>>
    /\ chan' = [chan EXCEPT ![c].q = Tail(@)]
    /\ UNCHANGED <<input, unread_idx, timelines, channel_id, ping_due, wire,
                   bus_subscribed, cmds, emitted, pc, ret, last_poll, abort,
                   delivered, ws, receiver>>

\* The same between two calls of send_msgs.
ClientRecv(c) == pc = "idle" /\ ClientTakes(c)

\* A client goes away: its adapter drops the receiving end of its queue.
DropReceiver(c) ==
    /\ pc = "idle"
    /\ c \in InTable
    /\ chan[c].open
    /\ chan' = [chan EXCEPT ![c] = [q |-> <<>>, open |-> FALSE]]
    /\ UNCHANGED <<input, unread_idx, timelines, channel_id, ping_due, wire,
                   bus_subscribed, cmds, emitted, pc, ret, last_poll, abort,
                   delivered, ws, receiver>>

\* The WebSocket peer of a client fails: from now on nothing written to the
\* WebSocket is taken.  No task of Ws reads the WebSocket (send_to drops the
\* receiving half), so the failure shows only when a write is attempted.
RemoteFails(c) ==
    /\ pc = "idle"
    /\ c \in InTable
    /\ chan[c].open
    /\ ws[c].remote
    /\ ws' = [ws EXCEPT ![c].remote = FALSE]
    /\ UNCHANGED <<input, unread_idx, timelines, channel_id, ping_due, chan,
                   wire, bus_subscribed, cmds, emitted, pc, ret, last_poll,
                   abort, delivered, receiver>>

\* Ws::send_msg: the text goes into the pipe; when the pipe's receiver is
\* gone the send fails, the error ends the for_each of send_to and with it
\* the adapter, which drops the receiving end of the client's queue.
send_msg(c) ==
    IF ws[c].pipe
    THEN /\ ws' = [ws EXCEPT ![c].piped = @ + 1]
         /\ chan' = [chan EXCEPT ![c].q = Tail(@)]
    ELSE /\ ws' = ws
         /\ chan' = [chan EXCEPT ![c] = [q |-> <<>>, open |-> FALSE]]

\* The closure of Ws::send_to for the oldest event of the queue: a Ping is
\* always sent on; any other event is sent unless the subscription's blocks
\* or language list filter it out (skip).
WsTakes(c, skip) ==
    /\ pc = "idle"
    /\ chan[c].open
    /\ chan[c].q # <<>>
    /\ ws[c].piped < MaxPiped
    /\ IF skip /\ Head(chan[c].q) # Ping
       THEN /\ chan' = [chan EXCEPT ![c].q = Tail(@)]
            /\ ws' = ws
       ELSE send_msg(c)
    /\ UNCHANGED <<input, unread_idx, timelines, channel_id, ping_due, wire,
                   bus_subscribed, cmds, emitted, pc, ret, last_poll, abort,
                   delivered, receiver>>

\* The task spawned by send_to forwards a message of the pipe to the
\* WebSocket; a failed write ends the task, which drops the pipe's receiver.
WsForward(c) ==
    /\ pc = "idle"
    /\ ws[c].pipe
    /\ ws[c].piped > 0
    /\ ws' = IF ws[c].remote
             THEN [ws EXCEPT ![c].piped = @ - 1]
             ELSE [ws EXCEPT ![c].piped = 0, ![c].pipe = FALSE]
    /\ UNCHANGED <<input, unread_idx, timelines, channel_id, ping_due, chan,
                   wire, bus_subscribed, cmds, emitted, pc, ret, last_poll,
                   abort, delivered, receiver>>

\* Every adapter has handled what its queue and its pipe held.
Settled ==
    \A c \in DOMAIN chan :
        chan[c].open => chan[c].q = <<>> /\ (ws[c].pipe => ws[c].piped = 0)

\* More than 30 s pass since ping_time.
Tick ==
    /\ pc = "idle"
    /\ ~ping_due
    /\ ping_due' = TRUE
    /\ UNCHANGED <<input, unread_idx, timelines, channel_id, chan, wire,
                   bus_subscribed, cmds, emitted, pc, ret, last_poll, abort,
                   delivered, ws, receiver>>

\* The bus writes a frame to the socket, between two calls of send_msgs,
\* as long as it has emitted fewer than max frames.
BusWritesUpTo(frame, max) ==
    /\ pc = "idle"
    /\ emitted < max
    /\ emitted' = emitted + 1
    /\ wire' = wire \o frame
    /\ UNCHANGED <<input, unread_idx, timelines, channel_id, ping_due, chan,
                   bus_subscribed, cmds, pc, ret, last_poll, abort, delivered,
                   ws, receiver>>

BusWrites(frame) == BusWritesUpTo(frame, MaxEmit)

\* The bus delivers the next event of a timeline it routes here; the event
\* published n-th carries the id n.
BusMessageUpTo(tl, max) ==
    /\ tl \in bus_subscribed
    /\ BusWritesUpTo(MsgFrame(ChannelOf(namespace, tl), <<DigitOf(emitted + 1)>>), max)

\* The same for an event that carries a text.
BusEventUpTo(tl, text, max) ==
    /\ tl \in bus_subscribed
    /\ BusWritesUpTo(MsgFrame(ChannelOf(namespace, tl),
                              <<DigitOf(emitted + 1)>> \o text), max)

BusMessage(tl) == BusMessageUpTo(tl, MaxEmit)

\* The bus acknowledges a SUBSCRIBE.
BusAckUpTo(tl, max) ==
    /\ \E i \in 1..Len(cmds) : cmds[i].kind = "Subscribe" /\ tl \in cmds[i].tls
    /\ BusWritesUpTo(AckFrame(ChannelOf(namespace, tl)), max)

BusAck(tl) == BusAckUpTo(tl, MaxEmit)

\* A well-formed message on a channel of another namespace.
BusForeignUpTo(max) ==
    BusWritesUpTo(MsgFrame(ChannelOf(OtherNamespace, 1), <<DigitOf(emitted + 1)>>), max)

BusForeign == BusForeignUpTo(MaxEmit)

\* Bytes that are no frame.
BusGarbage == BusWrites(Garbage)

\* A well-formed message on a channel routed here whose payload is no known
\* event.
BusUndecodable(tl, max) ==
    /\ tl \in bus_subscribed
    /\ BusWritesUpTo(MsgFrame(ChannelOf(namespace, tl), UnknownEvent), max)

\* RedisConn::poll_redis writes the bytes read at write_end; a buffer too
\* short for them is doubled until they fit.
RECURSIVE Grown(_, _)
Grown(inp, need) ==
    IF Len(inp) >= need THEN inp
    ELSE Grown(inp \o [i \in 1..(IF Len(inp) = 0 THEN 1 ELSE Len(inp)) |-> ZeroByte], need)

WriteAt(inp, start, bytes) ==
    LET g == Grown(inp, start + Len(bytes)) IN
    [i \in 1..Len(g) |->
        IF start < i /\ i <= start + Len(bytes) THEN bytes[i - start] ELSE g[i]]

\* What one read of the socket may return: all the bytes in flight, or a
\* short read.
ReadSizes(w) == {Len(w)} \cup {n \in {ShortRead} : n < Len(w)}

\* Manager::send_pings: ping every channel, drop those whose send fails,
\* drop the timelines left without channels and unsubscribe from them.
send_pings ==
    LET kept == {tl \in DOMAIN timelines : KeptTimeline(tl)}
        closed == DOMAIN timelines \ kept
        pinged == UNION {Retained(timelines[tl]) : tl \in DOMAIN timelines}
    IN
    /\ ping_due' = FALSE
    /\ chan' = [c \in DOMAIN chan |->
                   IF c \in pinged THEN try_send(chan[c], Ping) ELSE chan[c]]
    /\ timelines' = [tl \in kept |-> Retained(timelines[tl])]
    /\ IF closed # {}
       THEN send_cmd("Unsubscribe", closed)
       ELSE UNCHANGED <<cmds, bus_subscribed>>
    /\ ws' = [c \in DOMAIN ws |-> IF Failing(c) THEN Swept(ws[c]) ELSE ws[c]]

\* Manager::send_msgs, entry: the ping check.
SendMsgs ==
    /\ pc = "idle"
    /\ pc' = "poll_redis"
    /\ IF ping_due
       THEN send_pings
       ELSE UNCHANGED <<ping_due, chan, timelines, cmds, bus_subscribed, ws>>
    /\ last_poll' = NoPoll
    /\ UNCHANGED <<input, unread_idx, channel_id, wire, emitted, ret, abort,
                   delivered, receiver>>

\* The outer loop of send_msgs: read the socket, the read returning one of
\* the given numbers of bytes; with nothing to read the call returns Ready.
PollRedisOf(sizes) ==
    /\ pc = "poll_redis"
    /\ IF wire = <<>>
       THEN /\ pc' = "idle"
            /\ ret' = "Ready"
            /\ UNCHANGED <<input, unread_idx, wire>>
       ELSE \E n \in sizes :
            /\ input' = WriteAt(input, unread_idx[2], Take(wire, n))
            /\ unread_idx' = <<unread_idx[1], unread_idx[2] + n>>
            /\ wire' = Drop(wire, n)
            /\ pc' = "poll"
            /\ UNCHANGED ret
    /\ UNCHANGED <<timelines, channel_id, ping_due, chan, bus_subscribed, cmds,
                   emitted, last_poll, abort, delivered, ws, receiver>>

PollRedis == PollRedisOf(ReadSizes(wire))

\* The same with reads of any size: the stream is cut into chunks at
\* arbitrary bytes.
PollRedisAny == PollRedisOf(1..Len(wire))

Polled(p, sent) ==
    [rs |-> unread_idx[1], out |-> p.out, why |-> p.why, consumed |-> p.consumed,
     sent |-> sent]

\* The return of send_msgs after a fan-out stopped by a channel that is not
\* ready: r is what rewind_to_prev_msg made of the buffer and the cursor.
Rewound(p, r) ==
    /\ input' = r.input
    /\ unread_idx' = r.unread_idx
    /\ pc' = IF r.diverged THEN "rewinding" ELSE "idle"
    /\ ret' = IF r.diverged THEN ret ELSE "NotReady"
    /\ abort' = [some |-> TRUE, start |-> unread_idx[1], we |-> unread_idx[2],
                 tl |-> p.tl, event |-> p.event]

\* The body of the inner loop for the item p, f being the outcome of the
\* for loop over the channels of its timeline.
FannedOut(p, f) ==
    /\ chan' = f.chan
    /\ timelines' = [t \in DOMAIN timelines \cup {p.tl} |-> Channels(t)]
    /\ delivered' = [c \in DOMAIN delivered |->
                        IF c \in f.sent
                        THEN [last |-> p.event,
                              times |-> IF delivered[c].last = p.event
                                        THEN delivered[c].times + 1 ELSE 1,
                              seen |-> IF delivered[c].last = p.event
                                       THEN delivered[c].seen
                                       ELSE delivered[c].seen + 1]
                        ELSE delivered[c]]
    /\ last_poll' = Polled(p, f.sent)
    /\ IF f.full
       THEN Rewound(p, rewind_to_prev_msg(p.input, p.unread_idx, MaxRewind))
       ELSE /\ input' = p.input
            /\ unread_idx' = p.unread_idx
            /\ pc' = "poll"
            /\ abort' = NoAbort
            /\ UNCHANGED ret

\* What follows a poll() of the inner loop that yields no item.
Moved(p, next) ==
    /\ input' = p.input
    /\ unread_idx' = p.unread_idx
    /\ last_poll' = Polled(p, {})
    /\ abort' = NoAbort
    /\ pc' = next
    /\ UNCHANGED <<timelines, channel_id, ping_due, chan, wire, bus_subscribed,
                   cmds, emitted, ret, delivered, ws, receiver>>

PollItemOf(p) ==
    /\ p.out = "ReadySome"
    /\ \E order \in Orders(Channels(p.tl)) :
           FannedOut(p, FanOut(order, chan, p.event, {}))
    /\ UNCHANGED <<channel_id, ping_due, wire, bus_subscribed, cmds, emitted,
                   ws, receiver>>

\* The inner loop of send_msgs, poll() yields an item: fan it out; a channel
\* that is not ready rewinds the cursor and ends the call with NotReady.
PollItem == pc = "poll" /\ PollItemOf(Poll(input, unread_idx))

PollNoneOf(p) == p.out = "ReadyNone" /\ Moved(p, "poll")

\* poll() yields Ready(None): the loop polls again.
PollNone == pc = "poll" /\ PollNoneOf(Poll(input, unread_idx))

PollEndOf(p) == p.out \in {"NotReady", "Err"} /\ Moved(p, "poll_redis")

\* poll() yields NotReady or an error: the inner loop ends.
PollEnd == pc = "poll" /\ PollEndOf(Poll(input, unread_idx))

Next ==
    \/ \E tl \in Timelines : Subscribe(tl)
    \/ \E c \in DOMAIN chan : ClientRecv(c)
    \/ \E c \in DOMAIN chan : DropReceiver(c)
    \/ Tick
    \/ \E tl \in Timelines : BusMessage(tl)
    \/ \E tl \in Timelines : BusAck(tl)
    \/ BusForeign
    \/ BusGarbage
    \/ SendMsgs
    \/ PollRedis
    \/ PollItem
    \/ PollNone
    \/ PollEnd

Spec == Init /\ [][Next]_vars

\* Fan-out on its own: clients subscribe and take events at any moment, also
\* while send_msgs runs, and the bus delivers up to MaxEmitFanOut events;
\* no client goes away and no ping falls due.
NextFanOut ==
    \/ \E tl \in Timelines : Subscribe(tl)
    \/ \E c \in DOMAIN chan : ClientTakes(c)
    \/ \E tl \in Timelines : BusMessageUpTo(tl, MaxEmitFanOut)
    \/ SendMsgs
    \/ PollRedis
    \/ PollItem
    \/ PollEnd

SpecFanOut == Init /\ [][NextFanOut]_vars

\* ------------------------------------------------------------ the Receiver
\* The Receiver of receiver/mod.rs is the object that faces the bus for the
\* client managers: [timeline, manager_id, msg_queues, clients_per_timeline,
\* dropped].  A timeline is written as for the Manager, 0 being the empty
\* String of a new Receiver; manager ids are 1..MaxManagers, 0 the default.
ManagerIds == 1..MaxManagers

\* pubsub_cmd!(kind, self, timeline), as a command record.
pubsub_cmd(kind, tl) == [kind |-> kind, tls |-> {tl}]

\* The route of the bus after the commands out.
RECURSIVE Routed(_, _)
Routed(subs, out) ==
    IF out = <<>> THEN subs
    ELSE Routed(IF Head(out).kind = "Subscribe" THEN subs \cup Head(out).tls
                ELSE subs \ Head(out).tls,
                Tail(out))

\* MessageQueues::calculate_timelines_to_add_or_drop: one client less for
\* the timeline of every queue given up (stale, in the order given), one
\* more for the timeline newly managed.
TimelinesToModify(queues, stale, tl) ==
    [i \in 1..Len(stale) |->
        [timeline |-> queues[stale[i]], in_subscriber_number |-> -1]]
    \o <<[timeline |-> tl, in_subscriber_number |-> 1]>>

\* clients_per_timeline.entry(..).and_modify(|n| *n += change).or_insert_with(|| 1)
Counted(counts, change) ==
    IF change.timeline \in DOMAIN counts
    THEN counts[change.timeline] + change.in_subscriber_number
    ELSE 1

\* The loop of subscribe_or_unsubscribe_as_needed over the changes: the
\* counts afterwards and the commands sent.
RECURSIVE Modified(_, _, _)
Modified(changes, counts, out) ==
    IF changes = <<>> THEN [counts |-> counts, out |-> out]
    ELSE LET change == Head(changes)
             n == Counted(counts, change)
         IN Modified(Tail(changes),
                     [t \in DOMAIN counts \cup {change.timeline} |->
                         IF t = change.timeline THEN n ELSE counts[t]],
                     IF n <= 0
                     THEN Append(out, pubsub_cmd("Unsubscribe", change.timeline))
                     ELSE IF n = 1 /\ change.in_subscriber_number = 1
                          THEN Append(out, pubsub_cmd("Subscribe", change.timeline))
                          ELSE out)

ReceiverSends(out) ==
    /\ cmds' = cmds \o out
    /\ bus_subscribed' = Routed(bus_subscribed, out)

ReceiverOnly ==
    UNCHANGED <<input, unread_idx, timelines, channel_id, ping_due, chan, wire,
                emitted, pc, ret, last_poll, abort, delivered, ws>>

ManagedNew(id, tl, stale, m) ==
    /\ receiver' = [receiver EXCEPT
                       !.timeline = tl,
                       !.manager_id = id,
                       !.msg_queues =
                           [i \in (DOMAIN receiver.msg_queues \cup {id})
                                   \ {stale[k] : k \in 1..Len(stale)} |->
                               IF i = id THEN tl ELSE receiver.msg_queues[i]],
                       !.clients_per_timeline = m.counts]
    /\ ReceiverSends(m.out)

\* Receiver::manage_new_timeline(manager_id, timeline), the queues in stale
\* having been given up by their clients.  An id may serve again once its
\* queue is gone: nothing remembers it.
manage_new_timeline(id, tl, stale) ==
    /\ ~receiver.dropped
    /\ Len(cmds) < MaxCmds
    /\ id \notin DOMAIN receiver.msg_queues
    /\ ManagedNew(id, tl, stale,
                  Modified(TimelinesToModify(receiver.msg_queues, stale, tl),
                           receiver.clients_per_timeline, <<>>))
    /\ ReceiverOnly

\* Receiver::configure_for_polling(manager_id, timeline), called by a client
\* manager with its own id and timeline.
configure_for_polling(id) ==
    /\ ~receiver.dropped
    /\ id \in DOMAIN receiver.msg_queues
    /\ receiver' = [receiver EXCEPT !.manager_id = id,
                                    !.timeline = receiver.msg_queues[id]]
    /\ UNCHANGED <<cmds, bus_subscribed>>
    /\ ReceiverOnly

\* The timelines the unsubscribe of Drop for Receiver names.
DropTimelines(r) == {r.timeline}

\* Drop for Receiver.
DropOfReceiver ==
    /\ ~receiver.dropped
    /\ receiver' = [receiver EXCEPT !.dropped = TRUE]
    /\ ReceiverSends(<<[kind |-> "Unsubscribe", tls |-> DropTimelines(receiver)]>>)
    /\ ReceiverOnly

NextReceiver ==
    \/ \E id \in ManagerIds, tl \in Timelines :
           \E S \in SUBSET DOMAIN receiver.msg_queues : \E stale \in Orders(S) :
               manage_new_timeline(id, tl, stale)
    \/ \E id \in ManagerIds : configure_for_polling(id)
    \/ DropOfReceiver

SpecReceiver == Init /\ [][NextReceiver]_vars

\* Compaction on its own: copy_partial_msg applied to any buffer of up to
\* MaxBuf bytes and any pair of indices within it.
SomeBytes == {"a", "b", "c"}
Buffers == UNION {[1..n -> SomeBytes] : n \in 0..MaxBuf}

InitCompact ==
    /\ input \in Buffers
    /\ \E we \in 0..Len(input) : \E rs \in 0..we : unread_idx = <<rs, we>>
    /\ timelines = <<>>
    /\ channel_id = 0
    /\ ping_due = FALSE
    /\ chan = <<>>
    /\ wire = <<>>
    /\ bus_subscribed = {}
    /\ cmds = <<>>
    /\ emitted = 0
    /\ pc = "compact"
    /\ ret = "None"
    /\ last_poll = NoPoll
    /\ abort = NoAbort
    /\ delivered = <<>>
    /\ ws = [c \in ChannelIds |-> NewWs]
    /\ receiver = NewReceiver

\* The branch copy_partial_msg takes for the indices idx.
CompactPath(idx) ==
    IF idx[1] = 0 THEN "first"
    ELSE IF idx[1] >= idx[2] - idx[1] THEN "copied" ELSE "reallocated"

Compacted(c) ==
    /\ input' = c.input
    /\ unread_idx' = c.unread_idx

Compact ==
    /\ pc = "compact"
    /\ Compacted(copy_partial_msg(input, unread_idx))
    /\ pc' = CompactPath(unread_idx)
    /\ UNCHANGED <<timelines, channel_id, ping_due, chan, wire, bus_subscribed,
                   cmds, emitted, ret, last_poll, abort, delivered, ws, receiver>>

NextCompact == Compact

SpecCompact == InitCompact /\ [][NextCompact]_vars

\* Chunking: the clients are there first, then the bus delivers events, with
\* or without text, which are read in chunks of any size.
NextChunk ==
    \/ emitted = 0 /\ \E tl \in Timelines : Subscribe(tl)
    \/ \E tl \in Timelines, text \in EventTexts : BusEventUpTo(tl, text, MaxEmitChunk)
    \/ SendMsgs
    \/ PollRedisAny
    \/ PollItem
    \/ PollEnd

SpecChunk == Init /\ [][NextChunk]_vars

\* Chunks that end inside a code point, in a stream of acknowledgments and
\* events with text.
NextTail ==
    \/ emitted = 0 /\ \E tl \in Timelines : Subscribe(tl)
    \/ \E tl \in Timelines : BusAckUpTo(tl, MaxEmitTail)
    \/ \E tl \in Timelines, text \in EventTexts : BusEventUpTo(tl, text, MaxEmitTail)
    \/ SendMsgs
    \/ PollRedisAny
    \/ PollItem
    \/ PollNone
    \/ PollEnd

SpecTail == Init /\ [][NextTail]_vars

\* The bus delivers events and messages whose payload cannot be decoded.
NextDecode ==
    \/ \E tl \in Timelines : Subscribe(tl)
    \/ \E c \in DOMAIN chan : ClientRecv(c)
    \/ \E tl \in Timelines : BusMessageUpTo(tl, MaxEmitDecode)
    \/ \E tl \in Timelines : BusUndecodable(tl, MaxEmitDecode)
    \/ SendMsgs
    \/ PollRedis
    \/ PollItem
    \/ PollEnd

SpecDecode == Init /\ [][NextDecode]_vars

\* The Manager with the adapters of ws.rs as its clients.  A ping period is
\* long for an adapter: when a ping falls due every adapter has handled
\* what it was sent.
NextWs ==
    \/ \E tl \in Timelines : Subscribe(tl)
    \/ \E c \in DOMAIN chan : RemoteFails(c)
    \/ \E c \in DOMAIN chan, skip \in BOOLEAN : WsTakes(c, skip)
    \/ \E c \in DOMAIN chan : WsForward(c)
    \/ Settled /\ Tick
    \/ \E tl \in Timelines : BusMessageUpTo(tl, MaxEmitWs)
    \/ SendMsgs
    \/ PollRedis
    \/ PollItem
    \/ PollEnd

SpecWs == Init /\ [][NextWs]_vars

\* The Manager with its scheduling: time passes whatever send_msgs does, and
\* the event loop calls send_msgs again whenever the last call has returned.
Fairness == SF_vars(Tick) /\ WF_vars(SendMsgs)

\* Clients come and go and pings fall due while the bus emits up to
\* MaxEmitLive frames, of this namespace or of another.
NextLive ==
    \/ \E tl \in Timelines : Subscribe(tl)
    \/ \E c \in DOMAIN chan : ClientRecv(c)
    \/ \E c \in DOMAIN chan : DropReceiver(c)
    \/ Tick
    \/ \E tl \in Timelines : BusMessageUpTo(tl, MaxEmitLive)
    \/ BusForeignUpTo(MaxEmitLive)
    \/ SendMsgs
    \/ PollRedis
    \/ PollItem
    \/ PollNone
    \/ PollEnd

SpecLive == Init /\ [][NextLive]_vars /\ Fairness

\* ------------------------------------------------------------------ claims

\* C1: in every reachable state the subscription table has a key for a
\* timeline if and only if the timeline has at least one channel: no key
\* maps to an empty channel set.
C1_KeyIffChannel == \A tl \in DOMAIN timelines : timelines[tl] # {}

\* The commands of one kind that name tl, counted.
Sent(kind, tl) ==
    Cardinality({i \in 1..Len(cmds) : cmds[i].kind = kind /\ tl \in cmds[i].tls})

\* The step hands send_cmd a command of this kind that names tl.
Sends(kind, tl) ==
    /\ Len(cmds') = Len(cmds) + 1
    /\ cmds'[Len(cmds')].kind = kind
    /\ tl \in cmds'[Len(cmds')].tls

\* C2: subscribe sends SUBSCRIBE for tl if and only if the channel it
\* inserts is the first channel on tl; subscribing a further client to a
\* timeline that has a channel sends no command.
C2_SubscribeIffFirst ==
    [][channel_id' # channel_id =>
        \E tl \in Timelines :
            /\ tl \in DOMAIN timelines'
            /\ timelines'[tl] = Channels(tl) \cup {channel_id}
            /\ IF Channels(tl) = {}
               THEN cmds' = Append(cmds, [kind |-> "Subscribe", tls |-> {tl}])
               ELSE cmds' = cmds]_vars

\* A second client is on a timeline for which one SUBSCRIBE was sent.
C2_Witness ==
    \E tl \in DOMAIN timelines :
        Cardinality(timelines[tl]) = 2 /\ Sent("Subscribe", tl) = 1

\* C3: UNSUBSCRIBE naming tl is sent exactly when a ping sweep removes the
\* last channel of tl (its channel count goes from 1 or more to 0), and
\* never for a timeline from which no channel was removed.
C3_UnsubscribeOnLast ==
    [][\A tl \in Timelines :
          Sends("Unsubscribe", tl) <=>
              /\ Channels(tl) # {}
              /\ tl \notin DOMAIN timelines']_vars

\* C4: a channel whose queue is full and whose receiver is open is never
\* removed from the subscription table, by any operation.
C4_FullNotRemoved ==
    [][\A c \in InTable :
          chan[c].open /\ Len(chan[c].q) >= QueueCap =>
              \E tl \in DOMAIN timelines' : c \in timelines'[tl]]_vars

\* C5: when a fan-out is aborted by a channel that is not ready, send_msgs
\* returns with read_start at the offset where the frame of that very message
\* starts and with write_end unchanged; the rewind loop ends.
C5_RewindToFrameStart ==
    /\ pc # "rewinding"
    /\ abort.some /\ pc = "idle" =>
          /\ unread_idx = <<abort.start, abort.we>>
          /\ Poll(input, unread_idx).out = "ReadySome"
          /\ Poll(input, unread_idx).tl = abort.tl
          /\ Poll(input, unread_idx).event = abort.event

\* A fan-out was aborted for a message that does not start the buffer.
C5_Witness == abort.some /\ pc = "idle" /\ ret = "NotReady" /\ abort.start > 0

\* C6: after a backpressure abort the next call of send_msgs parses the
\* deferred message again, whether or not the bus has produced new bytes:
\* no call returns Ready while the deferred message still waits for its
\* second parse.
C6_ReparsedNextWakeup == abort.some => ret # "Ready"

\* The valid text of the unread window.
UnreadText ==
    LET w == SubSeq(input, unread_idx[1] + 1, unread_idx[2]) IN Take(w, ValidUpTo(w))

\* C7: a malformed frame is recovered from: the Manager moves the cursor to
\* the next plausible frame boundary, so when send_msgs has returned the
\* unread window does not start with bytes that are no frame.
C7_MalformedSkipped == pc = "idle" => TryFrom(UnreadText).kind # "Error"

\* C8: a well-formed message whose channel does not match the namespace is
\* consumed without dispatch: after its parse read_start has advanced by the
\* length of the frame and no channel was sent an event.
C8_MismatchConsumed ==
    last_poll.why = "NsMismatch" =>
        /\ unread_idx[1] = last_poll.rs + last_poll.consumed
        /\ last_poll.sent = {}

\* C9: the events a channel receives appear in the order in which the bus
\* emitted them (the n-th event of the bus has the id n): a channel is never
\* sent an event older than the last one it was sent; a replay of that last
\* event is no reordering.
C9_BusOrder ==
    [][\A c \in DOMAIN delivered :
          delivered'[c] # delivered[c] => delivered'[c].last >= delivered[c].last]_vars

\* A channel was sent two different events, the later of them twice.
C9_Witness == \E c \in DOMAIN delivered : delivered[c].seen >= 2 /\ delivered[c].times >= 2

\* C10: backpressure causes at most one replay: a bus message is delivered
\* to a channel at most twice in total.
C10_AtMostOneReplay == \A c \in DOMAIN delivered : delivered[c].times <= 2

\* The receiver of c was dropped while c is in the subscription table.
DroppedInTable(c) == c \in InTable /\ ~chan[c].open

\* C11: under fairness (send_msgs is invoked again and again, and time
\* advances past the ping period), every channel whose receiver has been
\* dropped is eventually removed from the subscription table.
C11_DroppedEventuallySwept ==
    ([]<><<SendMsgs>>_vars) =>
        \A c \in ChannelIds : DroppedInTable(c) ~> (c \notin InTable)

\* A ping sweep has removed a channel whose receiver was dropped.
C11_Witness ==
    \E c \in DOMAIN chan : ~chan[c].open /\ c \notin InTable /\ Sent("Unsubscribe", 1) >= 1

\* C12: a client whose remote side has failed is closed within two ping
\* cycles: a channel whose peer has failed is not in the subscription table
\* any more once two ping sweeps have found it there.
C12_ClosedInTwoCycles ==
    \A c \in ChannelIds : Failing(c) => ws[c].swept <= 1

\* C13: a decode failure of one message is isolated: read_start is advanced
\* past exactly the frame of the failed message, no event is dispatched for
\* it, and the messages that follow it in the buffer are still parsed: when
\* send_msgs returns after the failure, no complete frame is left unparsed
\* in the unread window.
C13_DecodeFailureIsolated ==
    last_poll.why = "DecodeErr" =>
        /\ unread_idx[1] = last_poll.rs + last_poll.consumed
        /\ last_poll.sent = {}
        /\ pc = "idle" => TryFrom(UnreadText).kind \notin {"Msg", "NonMsg"}

\* C14: in every reachable state, after any sequence of reads, parses,
\* rewinds, compactions and resets, 0 <= read_start <= write_end <= the
\* length of the input buffer.
C14_IndicesInBounds ==
    /\ 0 <= unread_idx[1]
    /\ unread_idx[1] <= unread_idx[2]
    /\ unread_idx[2] <= Len(input)

\* After a rewind, read_start is inside a buffer that has been grown.
C14_Witness ==
    /\ abort.some
    /\ 0 < unread_idx[1]
    /\ unread_idx[1] < unread_idx[2]
    /\ Len(input) > InitialLen

\* The unread bytes of a buffer.
Unread(inp, idx) == SubSeq(inp, idx[1] + 1, idx[2])

\* C15: compaction leaves the unread bytes unchanged: afterwards read_start
\* is 0, write_end is the old write_end - read_start, and the buffer up to
\* write_end is byte for byte the old unread window, on all three paths.
C15_CompactionKeepsBytes ==
    [][pc = "compact" =>
          /\ unread_idx' = <<0, unread_idx[2] - unread_idx[1]>>
          /\ Unread(input', unread_idx') = Unread(input, unread_idx)]_vars

\* A compaction has reallocated the buffer and kept two unread bytes.
C15_Witness == pc = "reallocated" /\ unread_idx[2] >= 2 /\ input[1] # input[2]

\* The first valid messages of the bus: the event 1, with or without text,
\* on either timeline.
Messages ==
    {MsgFrame(ChannelOf(namespace, tl), <<"1">> \o text) :
        tl \in Timelines, text \in EventTexts}

\* What feeding the message M to a new Manager as one chunk yields: the item
\* of the first poll and the indices the following poll leaves.
AfterItem(p) ==
    [tl |-> p.tl, event |-> p.event, out |-> p.out,
     unread_idx |-> Poll(p.input, p.unread_idx).unread_idx]

OneChunk(M) ==
    AfterItem(Poll(WriteAt([i \in 1..InitialLen |-> ZeroByte], 0, M), <<0, Len(M)>>))

\* The state is the one OneChunk yields: same indices, and every channel of
\* the timeline was sent the event once.
SameAs(o) ==
    /\ o.out = "ReadySome"
    /\ unread_idx = o.unread_idx
    /\ \A c \in DOMAIN delivered :
          delivered[c] = IF c \in Channels(o.tl)
                         THEN [last |-> o.event, times |-> 1, seen |-> 1]
                         ELSE [last |-> 0, times |-> 0, seen |-> 0]

\* C16: chunking does not matter: when a valid message M has been read in
\* chunks cut at any bytes, also inside a code point of two bytes, and
\* send_msgs has returned, the event was decoded and delivered once and the
\* indices are the ones that M fed as one chunk yields.
C16_ChunkingEquivalent ==
    pc = "idle" /\ ret = "Ready" /\ wire = <<>> /\ emitted = 1 =>
        \E M \in Messages : IsPrefix(M, input) /\ SameAs(OneChunk(M))

\* A chunk has ended inside the code point of a message, which the parser
\* has reported incomplete.
C16_Witness ==
    /\ pc = "poll_redis"
    /\ last_poll.why = "Incomplete"
    /\ unread_idx[2] > 0
    /\ input[unread_idx[2]] = "C3"

\* C17: when the object that faces the bus is dropped, an UNSUBSCRIBE is
\* issued that names every timeline it is subscribed to on the bus, not only
\* the one configured last.
C17_DropUnsubscribesAll ==
    [][receiver'.dropped /\ ~receiver.dropped =>
          /\ Len(cmds') = Len(cmds) + 1
          /\ cmds'[Len(cmds')].kind = "Unsubscribe"
          /\ bus_subscribed \subseteq cmds'[Len(cmds')].tls]_vars

\* C18: after the parser consumes a complete frame, a message or not,
\* read_start is advanced by exactly the length of that frame, also when
\* the unread window ends in an incomplete code point: while the parse loop
\* goes on, read_start is where the frame just consumed ended.
C18_AdvanceByFrameLength ==
    pc = "poll" /\ last_poll.why \in {"Msg", "NonMsg"} =>
        unread_idx[1] = last_poll.rs + last_poll.consumed

\* C19: the parse loop of send_msgs terminates: every poll() after which
\* the loop goes on has consumed a complete frame and strictly advanced
\* read_start, so no frame makes the loop repeat in the same state.
C19_ParseLoopAdvances ==
    [][pc = "poll" /\ pc' = "poll" /\ last_poll' # last_poll =>
          unread_idx'[1] > unread_idx[1]]_vars

\* The channel c is open and reports NotReady.
NotReadyNow(c) == poll_ready(chan[c]) = "NotReady"

\* p is a message whose timeline has an open channel that is not ready.
HeadBlocked(p) ==
    p.out = "ReadySome" /\ \E b \in Channels(p.tl) : NotReadyNow(b)

\* The step delivers nothing but the event of p and leaves the message of
\* p at the cursor (q is what the cursor holds afterwards).
StaysAt(p, q) ==
    /\ \A c \in DOMAIN delivered :
          delivered'[c] # delivered[c] => delivered'[c].last = p.event
    /\ q.out = "ReadySome"
    /\ q.tl = p.tl
    /\ q.event = p.event

\* C20: head-of-line blocking across timelines: while the message at the
\* parse cursor belongs to a timeline with an open channel that reports
\* NotReady, no step delivers a message that comes after it in the stream
\* to any channel of any timeline, and the cursor stays at that message.
C20_HeadOfLineBlocking ==
    [][HeadBlocked(Poll(input, unread_idx)) =>
          StaysAt(Poll(input, unread_idx), Poll(input', unread_idx'))]_vars

\* q, the message behind the blocked message p, is for another timeline,
\* all of whose channels are ready.
ReadyBehind(p, q) ==
    /\ HeadBlocked(p)
    /\ q.out = "ReadySome"
    /\ q.tl # p.tl
    /\ Channels(q.tl) # {}
    /\ \A c \in Channels(q.tl) : poll_ready(chan[c]) = "Ready"

Behind(p) == Poll(p.input, p.unread_idx)

\* A fan-out was aborted and send_msgs has returned while the message
\* behind the blocked one could be delivered at once.
C20_Witness ==
    /\ pc = "idle"
    /\ abort.some
    /\ ReadyBehind(Poll(input, unread_idx), Behind(Poll(input, unread_idx)))

====
